---- MODULE Spec2Model ----
(***************************************************************************)
(* Model of mmseqspy/cluster_utils.py: the cluster-constrained two-way     *)
(* splitter of cluster_split (subset-sum dynamic program over group        *)
(* sizes), its entry point, the compositions built on it (constrained      *)
(* split, three-way split, k-fold) and the clustering step cluster.        *)
(*                                                                         *)
(* A dataset is a sequence of rows; row i carries the group label          *)
(* input[i] (column representative_sequence).  Fractions are rationals     *)
(* num/den with den a power of two, so that the floating-point products,   *)
(* quotients and comparisons of the code are exact on the modelled inputs. *)
(***************************************************************************)
EXTENDS Integers, Sequences, FiniteSets

\* ---------------------------------------------------------------- bounds
MaxRecords == 5      \* rows of the input dataset of a two-way call: 0..MaxRecords
MaxComposedRecords == 4  \* the same for constrained and three-way calls
MaxGroups == 3       \* group labels are 1..MaxGroups
Den == 16            \* test_size and tolerance are multiples of 1/Den

Labels == 1..MaxGroups
TestSizeNums == {-2, 0, 4, 6, 8, 16, 20}   \* test_size = n/Den, in and out of (0,1)
ToleranceNums == {1, 2}                    \* tolerance = n/Den
ValSizeNums == {2, 4, 12}                  \* val_size = n/Den
ForcedTestSizeNums == {4, 8}               \* test_size of constrained calls
ForcedToleranceNums == {2}                 \* tolerance of constrained calls
MaxForced == 2       \* forced identifiers of a call, both lists together
NSplits == {2, 3}                          \* n_splits of k-fold calls
MaxClusterRecords == 3   \* rows of the dataset of a cluster call
\* Identifiers are strings, written as tuples of characters.
Ids == {<<"a", " ", "b">>, <<"a", "_", "b">>, <<"c">>, <<"d">>}

\* ------------------------------------------------------ module namespace
\* The names bound at module level of cluster_utils.py (def statements).
ModuleNames == {"_check_mmseqs", "clean", "cluster", "cluster_split"}

\* ------------------------------------------------------- pure operators
Abs(x) == IF x < 0 THEN -x ELSE x

\* Python 3 round() of the rational num/den (den > 0): nearest integer,
\* halves go to the even neighbour.
Round(num, den) ==
  LET q == num \div den
      r == num % den
  IN  IF 2 * r < den THEN q
      ELSE IF 2 * r > den THEN q + 1
      ELSE IF q % 2 = 0 THEN q ELSE q + 1

\* Elements of a sequence as a set.
Range(s) == {s[i] : i \in DOMAIN s}

RECURSIVE SortedSeq(_)
\* The elements of a finite set of integers in ascending order.
SortedSeq(S) ==
  IF S = {} THEN <<>>
  ELSE LET m == CHOOSE x \in S : \A y \in S : x <= y
       IN  <<m>> \o SortedSeq(S \ {m})

RECURSIVE SumSeq(_)
SumSeq(s) == IF s = <<>> THEN 0 ELSE Head(s) + SumSeq(Tail(s))

\* df.groupby("representative_sequence").size(): the distinct labels of the
\* rows of frame, in sorted order, and the number of rows of each.
GroupKeys(lab, frame) == SortedSeq({lab[frame[i]] : i \in DOMAIN frame})
GroupSize(lab, frame, g) == Cardinality({i \in DOMAIN frame : lab[frame[i]] = g})
GroupSizes(lab, frame) ==
  LET keys == GroupKeys(lab, frame)
  IN  [k \in DOMAIN keys |-> GroupSize(lab, frame, keys[k])]

\* A dict is a sequence of entries in insertion order.
Keys(d) == {d[i].sum : i \in DOMAIN d}
Lookup(d, s) == (CHOOSE i \in DOMAIN d : d[i].sum = s)

\* Inner loop of the dynamic program (lines 160-163): for every entry of dp,
\* in order, record current_sum + cluster_size unless already recorded.
RECURSIVE InnerLoopOverwrite(_, _, _, _, _)
InnerLoopOverwrite(dp_, k, current_dp, cluster_size, i) ==
  IF k > Len(dp_) THEN current_dp
  ELSE LET new_sum == dp_[k].sum + cluster_size
           entry_ == [sum |-> new_sum, idx_list |-> Append(dp_[k].idx_list, i)]
       IN  InnerLoopOverwrite(dp_, k + 1,
             IF new_sum \in Keys(current_dp)
               THEN [current_dp EXCEPT ![Lookup(current_dp, new_sum)] = entry_]
               ELSE Append(current_dp, entry_),
             cluster_size, i)
RECURSIVE InnerLoopNoIndex(_, _, _, _, _)
InnerLoopNoIndex(dp_, k, current_dp, cluster_size, i) ==
  IF k > Len(dp_) THEN current_dp
  ELSE LET new_sum == dp_[k].sum + cluster_size
       IN  InnerLoopNoIndex(dp_, k + 1,
             IF new_sum \in Keys(current_dp)
               THEN current_dp
               ELSE Append(current_dp, [sum |-> new_sum, idx_list |-> dp_[k].idx_list]),
             cluster_size, i)
RECURSIVE InnerLoop(_, _, _, _, _)
InnerLoop(dp_, k, current_dp, cluster_size, i) ==
  IF k > Len(dp_) THEN current_dp
  ELSE LET new_sum == dp_[k].sum + cluster_size
       IN  InnerLoop(dp_, k + 1,
             IF new_sum \in Keys(current_dp)
               THEN current_dp
               ELSE Append(current_dp, [sum |-> new_sum, idx_list |-> Append(dp_[k].idx_list, i)]),
             cluster_size, i)

\* min(dp.keys(), key=lambda s: abs(s - target)): the first key, in
\* insertion order, whose distance to the target is minimal (line 167).
BestSumBelow(d, target) ==
  LET below == {i \in DOMAIN d : d[i].sum <= target \/ d[i].sum = 0}
      best == CHOOSE i \in below : \A j \in below : d[i].sum >= d[j].sum
  IN  d[best].sum
BestSumSmallest(d, target) ==
  LET best == CHOOSE i \in DOMAIN d :
                \A j \in DOMAIN d :
                  \/ Abs(d[i].sum - target) < Abs(d[j].sum - target)
                  \/ /\ Abs(d[i].sum - target) = Abs(d[j].sum - target)
                     /\ d[i].sum <= d[j].sum
  IN  d[best].sum
BestSum(d, target) ==
  LET best == CHOOSE i \in DOMAIN d :
                /\ \A j \in DOMAIN d : Abs(d[i].sum - target) <= Abs(d[j].sum - target)
                /\ \A j \in 1..(i - 1) : Abs(d[j].sum - target) > Abs(d[i].sum - target)
  IN  d[best].sum

\* Boolean-mask row selection (lines 172-173): rows of frame whose label is
\* / is not among the chosen clusters, in frame order.
IsIn(lab, chosen, r) == lab[r] \in Range(chosen)
TestRowsByCount(lab, frame, chosen) ==
  SubSeq(frame, 1, SumSeq([k \in DOMAIN chosen |-> GroupSize(lab, frame, chosen[k])]))
TestRows(lab, frame, chosen) == SelectSeq(frame, LAMBDA r : IsIn(lab, chosen, r))
TrainRowsAll(lab, frame, chosen) == frame
TrainRows(lab, frame, chosen) == SelectSeq(frame, LAMBDA r : ~IsIn(lab, chosen, r))

\* abs(len(test_df) / total - test_size) > tolerance (line 177), for
\* test_size = ts.num/ts.den and tolerance = tol/Den, total > 0.
ExceedsNoAbs(n_test, total, ts, tol) ==
  (n_test * ts.den - ts.num * total) * Den > tol * total * ts.den
Exceeds(n_test, total, ts, tol) ==
  Abs(n_test * ts.den - ts.num * total) * Den > tol * total * ts.den

\* ----------------------------------------------------------------- state
VARIABLES
  mmseqs,             \* TRUE iff the mmseqs executable is in PATH
  entry,              \* the entry point that was called
  pc,                 \* position of the call
  input,              \* the caller's dataset: input[i] = group label of row i
  args,               \* the caller's arguments
  df,                 \* the frame the splitter works on (row numbers of input)
  test_size,          \* target fraction of the running splitter, [num, den]
  clusters, sizes,    \* lines 150-151
  total_sequences,    \* line 153
  target_test_count,  \* line 154
  dp, idx,            \* lines 157-164
  best_sum,           \* line 167
  chosen_clusters,    \* line 169
  test_df, train_df,  \* lines 172-173
  warned,             \* TRUE iff the warning of lines 178-182 was printed
  pass,               \* three-way split: 1 = carving test, 2 = carving val
  held,               \* three-way split: the test rows carved in pass 1
  result,             \* the returned partitions
  err,                \* the exception raised, "none" if none
  cdf,                \* cluster: the caller's DataFrame, column name -> values
  tmp_dir,            \* cluster: the temporary directory of line 73
  cluster_map         \* cluster: member -> representative, lines 96-100

vars == <<mmseqs, entry, pc, input, args, df, test_size, clusters, sizes,
          total_sequences, target_test_count, dp, idx, best_sum,
          chosen_clusters, test_df, train_df, warned, pass, held, result, err,
          cdf, tmp_dir, cluster_map>>

splitterVars == <<clusters, sizes, total_sequences, target_test_count, dp, idx,
                  best_sum, chosen_clusters, test_df, train_df, warned>>
callVars == <<mmseqs, entry, input, args>>
clusterVars == <<cdf, tmp_dir, cluster_map>>

Datasets == UNION {[1..n -> Labels] : n \in 0..MaxRecords}
ComposedDatasets == UNION {[1..n -> Labels] : n \in 0..MaxComposedRecords}
AllRows(inp) == [i \in 1..Len(inp) |-> i]
NoArgs == [test_size |-> 0, tolerance |-> 0, val_size |-> 0,
           force_train_ids |-> {}, force_test_ids |-> {}]
NoResult == [train |-> <<>>, val |-> <<>>, test |-> <<>>]

Init ==
  /\ mmseqs \in BOOLEAN
  /\ entry = "none"
  /\ pc = "idle"
  /\ input = <<>>
  /\ args = NoArgs
  /\ df = <<>>
  /\ test_size = [num |-> 0, den |-> Den]
  /\ clusters = <<>>
  /\ sizes = <<>>
  /\ total_sequences = 0
  /\ target_test_count = 0
  /\ dp = <<>>
  /\ idx = 0
  /\ best_sum = 0
  /\ chosen_clusters = <<>>
  /\ test_df = <<>>
  /\ train_df = <<>>
  /\ warned = FALSE
  /\ pass = 1
  /\ held = <<>>
  /\ result = NoResult
  /\ err = "none"
  /\ cdf = <<>>
  /\ tmp_dir = "none"
  /\ cluster_map = <<>>

Raise(e) ==
  /\ err' = e
  /\ pc' = "raised"

\* ---------------------------------------------- cluster_split, lines 115-184
\* A call cluster_split(df, sequence_col, id_col, test_size, ..., tolerance).
\* input is the grouping the clustering tool would compute for the dataset.
CallClusterSplit ==
  /\ pc = "idle"
  /\ \E inp \in Datasets, ts \in TestSizeNums, tol \in ToleranceNums :
       /\ input' = inp
       /\ args' = [NoArgs EXCEPT !.test_size = ts, !.tolerance = tol]
       /\ test_size' = [num |-> ts, den |-> Den]
  /\ entry' = "cluster_split"
  /\ pc' = "check_mmseqs"
  /\ UNCHANGED <<mmseqs, df, splitterVars, pass, held, result, err>>
  /\ UNCHANGED clusterVars

\* Line 143 and _check_mmseqs (lines 7-15).
CheckMmseqs ==
  /\ pc = "check_mmseqs"
  /\ IF mmseqs
       THEN pc' = "step1" /\ err' = err
       ELSE Raise("EnvironmentError")
  /\ UNCHANGED <<callVars, df, test_size, splitterVars, pass, held, result>>
  /\ UNCHANGED clusterVars

\* Line 146: the global name cluster_sequences is looked up and called.
Step1 ==
  /\ pc = "step1"
  /\ IF "cluster_sequences" \in ModuleNames
       THEN /\ df' = AllRows(input)
            /\ pc' = "step2"
            /\ err' = err
       ELSE /\ Raise("NameError")
            /\ df' = df
  /\ UNCHANGED <<callVars, test_size, splitterVars, pass, held, result>>
  /\ UNCHANGED clusterVars

\* Lines 149-157: group sizes, total, target count, initial dp = {0: []}.
Step2 ==
  /\ pc = "step2"
  /\ clusters' = GroupKeys(input, df)
  /\ sizes' = GroupSizes(input, df)
  /\ total_sequences' = Len(df)
  /\ target_test_count' = Round(test_size.num * Len(df), test_size.den)
  /\ dp' = << [sum |-> 0, idx_list |-> <<>>] >>
  /\ idx' = 0
  /\ pc' = "dp"
  /\ UNCHANGED <<callVars, df, test_size, best_sum, chosen_clusters, test_df,
                 train_df, warned, pass, held, result, err>>
  /\ UNCHANGED clusterVars

\* Lines 158-164: one iteration of the outer loop (idx is 0-based).
DPStep ==
  /\ pc = "dp"
  /\ idx < Len(sizes)
  /\ dp' = InnerLoop(dp, 1, dp, sizes[idx + 1], idx)
  /\ idx' = idx + 1
  /\ UNCHANGED <<callVars, pc, df, test_size, clusters, sizes, total_sequences,
                 target_test_count, best_sum, chosen_clusters, test_df,
                 train_df, warned, pass, held, result, err>>
  /\ UNCHANGED clusterVars

\* Lines 167-169: closest achievable sum and its witness clusters.
Step4 ==
  /\ pc = "dp"
  /\ idx = Len(sizes)
  /\ LET s == BestSum(dp, target_test_count)
         best_cluster_indices == dp[Lookup(dp, s)].idx_list
     IN  /\ best_sum' = s
         /\ chosen_clusters' = [k \in DOMAIN best_cluster_indices |->
                                   clusters[best_cluster_indices[k] + 1]]
  /\ pc' = "step5"
  /\ UNCHANGED <<callVars, df, test_size, clusters, sizes, total_sequences,
                 target_test_count, dp, idx, test_df, train_df, warned, pass,
                 held, result, err>>
  /\ UNCHANGED clusterVars

\* Lines 172-173: rows of the chosen clusters are test, all others train.
Step5 ==
  /\ pc = "step5"
  /\ test_df' = TestRows(input, df, chosen_clusters)
  /\ train_df' = TrainRows(input, df, chosen_clusters)
  /\ pc' = "step6"
  /\ UNCHANGED <<callVars, df, test_size, clusters, sizes, total_sequences,
                 target_test_count, dp, idx, best_sum, chosen_clusters, warned,
                 pass, held, result, err>>
  /\ UNCHANGED clusterVars

\* Lines 176-182: achieved fraction (a division by total_sequences) and the
\* warning when it is off by more than the tolerance.
Step6 ==
  /\ pc = "step6"
  /\ IF total_sequences = 0
       THEN /\ Raise("ZeroDivisionError")
            /\ warned' = warned
       ELSE /\ warned' = Exceeds(Len(test_df), total_sequences, test_size, args.tolerance)
            /\ pc' = "ret"
            /\ err' = err
  /\ UNCHANGED <<callVars, df, test_size, clusters, sizes, total_sequences,
                 target_test_count, dp, idx, best_sum, chosen_clusters, test_df,
                 train_df, pass, held, result>>
  /\ UNCHANGED clusterVars

\* Line 184: return train_df, test_df.
Return ==
  /\ pc = "ret"
  /\ entry \in {"cluster_split", "split"}
  /\ result' = [NoResult EXCEPT !.train = train_df, !.test = test_df]
  /\ pc' = "done"
  /\ UNCHANGED <<callVars, df, test_size, splitterVars, pass, held, err>>
  /\ UNCHANGED clusterVars

\* ------------------------------------------------ the two-way splitter alone
\* split(df, group_col, test_size): the splitter (steps 2-6) applied to a
\* dataset that already carries its group labels.
CallSplit ==
  /\ pc = "idle"
  /\ \E inp \in Datasets, ts \in TestSizeNums, tol \in ToleranceNums :
       /\ input' = inp
       /\ args' = [NoArgs EXCEPT !.test_size = ts, !.tolerance = tol]
       /\ test_size' = [num |-> ts, den |-> Den]
       /\ df' = AllRows(inp)
  /\ entry' = "split"
  /\ pc' = "step2"
  /\ UNCHANGED <<mmseqs, splitterVars, pass, held, result, err>>
  /\ UNCHANGED clusterVars

\* ------------------------------------------------------ constrained split
\* Groups owning the forced identifiers (the identifier of row i is i).
OwningGroups(inp, ids) == {inp[i] : i \in ids}
ForcedGroups(inp, a) ==
  OwningGroups(inp, a.force_train_ids) \cup OwningGroups(inp, a.force_test_ids)
Conflicting(inp, a) ==
  \/ a.force_train_ids \cap a.force_test_ids # {}
  \/ OwningGroups(inp, a.force_train_ids) \cap OwningGroups(inp, a.force_test_ids) # {}
ResidualPool(inp, a) ==
  SelectSeq(AllRows(inp), LAMBDA r : inp[r] \notin ForcedGroups(inp, a))
ForcedTestSize(inp, a) ==
  Cardinality({i \in 1..Len(inp) : inp[i] \in OwningGroups(inp, a.force_test_ids)})

\* Union of the forced groups of one side with the residual result, in row
\* order.
UnionForced(inp, part, groups) ==
  SelectSeq(AllRows(inp), LAMBDA r : r \in Range(part) \/ inp[r] \in groups)

\* constrained_split(df, group_col, id_col, test_size, force_train_ids,
\* force_test_ids): forced identifiers are resolved to groups, conflicting
\* constraints are rejected, the forced groups leave the pool.
CallConstrainedSplit ==
  /\ pc = "idle"
  /\ \E inp \in ComposedDatasets, ts \in ForcedTestSizeNums,
        tol \in ForcedToleranceNums :
     \E ftr \in SUBSET (1..Len(inp)), fte \in SUBSET (1..Len(inp)) :
       /\ Cardinality(ftr) + Cardinality(fte) <= MaxForced
       /\ input' = inp
       /\ args' = [NoArgs EXCEPT !.test_size = ts, !.tolerance = tol,
                                 !.force_train_ids = ftr, !.force_test_ids = fte]
       /\ test_size' = [num |-> ts, den |-> Den]
       /\ IF Conflicting(inp, args')
            THEN /\ Raise("ConflictingConstraint")
                 /\ df' = df
            ELSE /\ df' = ResidualPool(inp, args')
                 /\ pc' = "cstep2"
                 /\ err' = err
  /\ entry' = "constrained_split"
  /\ UNCHANGED <<mmseqs, splitterVars, pass, held, result>>
  /\ UNCHANGED clusterVars

\* Group sizes of the residual pool; the target count is that of the whole
\* dataset less the rows already forced to test.
ConstrainedStep2 ==
  /\ pc = "cstep2"
  /\ clusters' = GroupKeys(input, df)
  /\ sizes' = GroupSizes(input, df)
  /\ total_sequences' = Len(df)
  /\ target_test_count' =
       Round(test_size.num * Len(input), test_size.den) - ForcedTestSize(input, args)
  /\ dp' = << [sum |-> 0, idx_list |-> <<>>] >>
  /\ idx' = 0
  /\ pc' = "dp"
  /\ UNCHANGED <<callVars, df, test_size, best_sum, chosen_clusters, test_df,
                 train_df, warned, pass, held, result, err>>
  /\ UNCHANGED clusterVars

\* The forced groups are added to the sides of the residual result.
ConstrainedReturn ==
  /\ pc = "ret"
  /\ entry = "constrained_split"
  /\ result' = [NoResult EXCEPT
       !.train = UnionForced(input, train_df, OwningGroups(input, args.force_train_ids)),
       !.test = UnionForced(input, test_df, OwningGroups(input, args.force_test_ids))]
  /\ pc' = "done"
  /\ UNCHANGED <<callVars, df, test_size, splitterVars, pass, held, err>>
  /\ UNCHANGED clusterVars

\* -------------------------------------------------------- three-way split
\* Fractions must be positive and sum to less than 1.
ValidFractions(ts, vs) == ts > 0 /\ vs > 0 /\ ts + vs < Den

\* train_test_val_cluster_split(df, ..., test_size, val_size): the first
\* pass of the splitter carves test out of all groups.
CallTrainTestVal ==
  /\ pc = "idle"
  /\ \E inp \in ComposedDatasets, ts \in TestSizeNums, vs \in ValSizeNums,
        tol \in ToleranceNums :
       /\ input' = inp
       /\ args' = [NoArgs EXCEPT !.test_size = ts, !.val_size = vs,
                                 !.tolerance = tol]
       /\ test_size' = [num |-> ts, den |-> Den]
       /\ IF ValidFractions(ts, vs)
            THEN /\ df' = AllRows(inp)
                 /\ pc' = "step2"
                 /\ err' = err
            ELSE /\ Raise("InvalidFractions")
                 /\ df' = df
  /\ entry' = "train_test_val_cluster_split"
  /\ pass' = 1
  /\ UNCHANGED <<mmseqs, splitterVars, held, result>>
  /\ UNCHANGED clusterVars

\* The second pass carves validation out of the remainder of the first,
\* with target fraction val_size / (1 - test_size).
CarveVal ==
  /\ pc = "ret"
  /\ entry = "train_test_val_cluster_split"
  /\ pass = 1
  /\ held' = test_df
  /\ df' = train_df
  /\ test_size' = [num |-> args.val_size, den |-> Den - args.test_size]
  /\ pass' = 2
  /\ pc' = "step2"
  /\ UNCHANGED <<callVars, splitterVars, result, err>>
  /\ UNCHANGED clusterVars

\* The residual of the second pass is train.
TrainTestValReturn ==
  /\ pc = "ret"
  /\ entry = "train_test_val_cluster_split"
  /\ pass = 2
  /\ result' = [train |-> train_df, val |-> test_df, test |-> held]
  /\ pc' = "done"
  /\ UNCHANGED <<callVars, df, test_size, splitterVars, pass, held, err>>
  /\ UNCHANGED clusterVars

\* ------------------------------------------------------------------ k-fold
\* Rows of inp outside one fold, in row order: the union of the other folds.
Complement(inp, fold) == SelectSeq(AllRows(inp), LAMBDA r : r \notin Range(fold))

\* cluster_kfold(df, ..., n_splits): the first fold is carved out of all
\* groups with target fraction 1/n_splits.
CallClusterKFold ==
  /\ pc = "idle"
  /\ \E inp \in ComposedDatasets, k \in NSplits, tol \in ToleranceNums :
       /\ input' = inp
       /\ args' = [test_size |-> 0, tolerance |-> tol, val_size |-> 0,
                   force_train_ids |-> {}, force_test_ids |-> {}, n_splits |-> k]
       /\ test_size' = [num |-> 1, den |-> k]
       /\ df' = AllRows(inp)
  /\ entry' = "cluster_kfold"
  /\ pass' = 1
  /\ held' = <<>>
  /\ pc' = "step2"
  /\ UNCHANGED <<mmseqs, splitterVars, result, err>>
  /\ UNCHANGED clusterVars

\* The next fold is carved out of the remaining pool with target fraction
\* 1 / (number of folds still to carve).
NextFold ==
  /\ pc = "ret"
  /\ entry = "cluster_kfold"
  /\ pass < args.n_splits
  /\ held' = Append(held, test_df)
  /\ df' = train_df
  /\ test_size' = [num |-> 1, den |-> args.n_splits - pass]
  /\ pass' = pass + 1
  /\ pc' = "step2"
  /\ UNCHANGED <<callVars, splitterVars, result, err>>
  /\ UNCHANGED clusterVars

\* One (train, test) pair per fold: test is the fold, train all other rows.
KFoldReturn ==
  /\ pc = "ret"
  /\ entry = "cluster_kfold"
  /\ pass = args.n_splits
  /\ LET folds == Append(held, test_df)
     IN  result' = [f \in DOMAIN folds |->
                      [train |-> Complement(input, folds[f]), test |-> folds[f]]]
  /\ pc' = "done"
  /\ UNCHANGED <<callVars, df, test_size, splitterVars, pass, held, err>>
  /\ UNCHANGED clusterVars

\* ------------------------------------------------- cluster, lines 44-112
\* str.replace(" ", "_") (line 71).
Sanitize(id) == [i \in DOMAIN id |-> IF id[i] = " " THEN "_" ELSE id[i]]

\* DataFrames: df[c] = values, df.drop(columns=[c]).
SetColumn(d, c, v) == [x \in DOMAIN d \cup {c} |-> IF x = c THEN v ELSE d[x]]
DropColumn(d, c) == [x \in DOMAIN d \ {c} |-> d[x]]

\* dict(zip(df["sanitized_id"], df[id_col])) (line 103): a later row
\* replaces the value of an earlier row with the same key.
ReverseMap(d) ==
  [x \in Range(d["sanitized_id"]) |->
     LET last == CHOOSE i \in DOMAIN d["sanitized_id"] :
                   /\ d["sanitized_id"][i] = x
                   /\ \A j \in DOMAIN d["sanitized_id"] :
                        d["sanitized_id"][j] = x => j <= i
     IN  d["id"][last]]

\* reverse_map.get(cluster_map.get(x, x), x) (line 105).
Representative(reverse_map, cmap, x) ==
  LET rep == IF x \in DOMAIN cmap THEN cmap[x] ELSE x
  IN  IF rep \in DOMAIN reverse_map THEN reverse_map[rep] ELSE x

\* The directory after the try statement of lines 74-109: the finally
\* clause removes it whether or not an exception e is pending.
RmtreeAfterTry(dir, e) == IF e = "none" THEN "removed" ELSE dir
RmtreeInFinally(dir, e) == "removed"

\* The datasets of a call: unique identifiers; the id or the sequence column
\* may be missing.
ClusterDatasets ==
  {ids \in UNION {[1..n -> Ids] : n \in 0..MaxClusterRecords} :
     \A i, j \in DOMAIN ids : ids[i] = ids[j] => i = j}
Frame(ids, cols) ==
  [c \in cols |-> IF c = "id" THEN ids ELSE [i \in DOMAIN ids |-> "ACDE"]]
\* What the tool may write to the results file for the given members.
ClusterOutputs(members) == UNION {[D -> members] : D \in SUBSET members}

splitVars == <<input, df, test_size, splitterVars, pass, held>>

\* A call cluster(df, sequence_col="sequence", id_col="id").
CallCluster ==
  /\ pc = "idle"
  /\ \E ids \in ClusterDatasets,
        cols \in {{"id", "sequence"}, {"id"}, {"sequence"}} :
       /\ cdf' = Frame(ids, cols)
       /\ args' = [df |-> Frame(ids, cols)]
  /\ entry' = "cluster"
  /\ pc' = "c_check_mmseqs"
  /\ UNCHANGED <<mmseqs, splitVars, result, err, tmp_dir, cluster_map>>

\* Line 66 and _check_mmseqs (lines 7-15).
ClusterCheckMmseqs ==
  /\ pc = "c_check_mmseqs"
  /\ IF mmseqs
       THEN pc' = "c_columns" /\ err' = err
       ELSE Raise("EnvironmentError")
  /\ UNCHANGED <<callVars, splitVars, result, clusterVars>>

\* Lines 68-69: both columns must be present.
ClusterColumns ==
  /\ pc = "c_columns"
  /\ IF "sequence" \notin DOMAIN cdf \/ "id" \notin DOMAIN cdf
       THEN Raise("ValueError")
       ELSE pc' = "c_sanitize" /\ err' = err
  /\ UNCHANGED <<callVars, splitVars, result, clusterVars>>

\* Line 71: the helper column sanitized_id.
ClusterSanitize ==
  /\ pc = "c_sanitize"
  /\ cdf' = SetColumn(cdf, "sanitized_id",
                      [i \in DOMAIN cdf["id"] |-> Sanitize(cdf["id"][i])])
  /\ pc' = "c_mkdtemp"
  /\ UNCHANGED <<callVars, splitVars, result, err, tmp_dir, cluster_map>>

\* Line 73: tempfile.mkdtemp().
ClusterMkdtemp ==
  /\ pc = "c_mkdtemp"
  /\ tmp_dir' = "exists"
  /\ pc' = "c_fasta"
  /\ UNCHANGED <<callVars, splitVars, result, err, cdf, cluster_map>>

\* Lines 76-79: the input file is written, or the write fails.
ClusterWriteFasta ==
  /\ pc = "c_fasta"
  /\ \/ pc' = "c_run" /\ err' = err
     \/ pc' = "c_finally" /\ err' = "OSError"
  /\ UNCHANGED <<callVars, splitVars, result, clusterVars>>

\* Lines 84-89: subprocess.run(..., check=True): the tool succeeds or fails.
ClusterRun ==
  /\ pc = "c_run"
  /\ \/ pc' = "c_parse" /\ err' = err
     \/ pc' = "c_finally" /\ err' = "CalledProcessError"
  /\ UNCHANGED <<callVars, splitVars, result, clusterVars>>

\* Lines 92-100: the results file is missing, or it is read into cluster_map.
ClusterParse ==
  /\ pc = "c_parse"
  /\ \/ /\ pc' = "c_finally"
        /\ err' = "FileNotFoundError"
        /\ cluster_map' = cluster_map
     \/ /\ cluster_map' \in ClusterOutputs(Range(cdf["sanitized_id"]))
        /\ pc' = "c_map"
        /\ err' = err
  /\ UNCHANGED <<callVars, splitVars, result, cdf, tmp_dir>>

\* Lines 103-106: the column representative_sequence.
ClusterMap ==
  /\ pc = "c_map"
  /\ cdf' = SetColumn(cdf, "representative_sequence",
              [i \in DOMAIN cdf["sanitized_id"] |->
                 Representative(ReverseMap(cdf), cluster_map, cdf["sanitized_id"][i])])
  /\ pc' = "c_finally"
  /\ UNCHANGED <<callVars, splitVars, result, err, tmp_dir, cluster_map>>

\* Lines 108-109: shutil.rmtree(tmp_dir); a pending exception propagates.
ClusterFinally ==
  /\ pc = "c_finally"
  /\ tmp_dir' = RmtreeInFinally(tmp_dir, err)
  /\ pc' = IF err = "none" THEN "c_drop" ELSE "raised"
  /\ UNCHANGED <<callVars, splitVars, result, err, cdf, cluster_map>>

\* Lines 111-112: the helper column is dropped and df returned.
ClusterReturn ==
  /\ pc = "c_drop"
  /\ cdf' = DropColumn(cdf, "sanitized_id")
  /\ result' = cdf'
  /\ pc' = "done"
  /\ UNCHANGED <<callVars, splitVars, err, tmp_dir, cluster_map>>

\* ------------------------------------------------------- specifications
\* Calls of cluster_split and of the two-way splitter.
Next ==
  \/ CallClusterSplit
  \/ CheckMmseqs
  \/ Step1
  \/ CallSplit
  \/ Step2
  \/ DPStep
  \/ Step4
  \/ Step5
  \/ Step6
  \/ Return

Spec == Init /\ [][Next]_vars

\* Calls of the constrained split.
NextConstrained ==
  \/ CallConstrainedSplit
  \/ ConstrainedStep2
  \/ DPStep
  \/ Step4
  \/ Step5
  \/ Step6
  \/ ConstrainedReturn

SpecConstrained == Init /\ [][NextConstrained]_vars

\* Calls of the three-way split.
NextTrainTestVal ==
  \/ CallTrainTestVal
  \/ Step2
  \/ DPStep
  \/ Step4
  \/ Step5
  \/ Step6
  \/ CarveVal
  \/ TrainTestValReturn

SpecTrainTestVal == Init /\ [][NextTrainTestVal]_vars

\* Calls of the k-fold split.
NextKFold ==
  \/ CallClusterKFold
  \/ Step2
  \/ DPStep
  \/ Step4
  \/ Step5
  \/ Step6
  \/ NextFold
  \/ KFoldReturn

SpecKFold == Init /\ [][NextKFold]_vars

\* Calls of cluster.
NextCluster ==
  \/ CallCluster
  \/ ClusterCheckMmseqs
  \/ ClusterColumns
  \/ ClusterSanitize
  \/ ClusterMkdtemp
  \/ ClusterWriteFasta
  \/ ClusterRun
  \/ ClusterParse
  \/ ClusterMap
  \/ ClusterFinally
  \/ ClusterReturn

SpecCluster == Init /\ [][NextCluster]_vars

\* ---------------------------------------------------------------- claims
TwoWay == entry \in {"cluster_split", "split"}
Returned == pc = "done"
N == Len(input)
GroupsOf(rows) == {input[rows[i]] : i \in DOMAIN rows}
RowsOfGroups(G) == {i \in 1..N : input[i] \in G}
Occurrences(rows, r) == Cardinality({k \in DOMAIN rows : rows[k] = r})
\* |k/N - num/Den| <= tol/Den, for N > 0
Within(k, num, tol) == Abs(k * Den - num * N) <= tol * N
\* T = round(test_size * N)
RequestedCount == Round(args.test_size * N, Den)
ValidFraction == args.test_size > 0 /\ args.test_size < Den

\* C1: the train and test partitions returned by the two-way split share no
\* group identifier.
C1_GroupsDisjoint ==
  (Returned /\ TwoWay) => GroupsOf(result.train) \cap GroupsOf(result.test) = {}

C1_Witness ==
  /\ Returned /\ TwoWay
  /\ result.train # <<>>
  /\ \E a, b \in Range(result.test) : a # b /\ input[a] = input[b]

\* C2: the two-way split is complete: len(train) + len(test) = len(input)
\* and every input row is in exactly one of the two partitions.
C2_Complete ==
  (Returned /\ TwoWay) =>
    /\ Len(result.train) + Len(result.test) = N
    /\ \A r \in 1..N : Occurrences(result.train \o result.test, r) = 1

C2_Witness ==
  /\ Returned /\ TwoWay
  /\ result.train # <<>>
  /\ result.test # <<>>
  /\ N = MaxRecords

\* C3: a two-way split of an empty dataset ends by returning an empty train
\* and an empty test partition, without an error.
C3_EmptyDatasetReturnsEmpty ==
  (entry = "split" /\ N = 0 /\ ValidFraction /\ pc \in {"done", "raised"}) =>
    /\ err = "none"
    /\ result.train = <<>>
    /\ result.test = <<>>

\* C4: the returned test partition is made of whole groups and its size is,
\* among the size sums of all subsets of the groups, one closest to
\* T = round(test_size * N).
C4_GloballyClosest ==
  (Returned /\ TwoWay) =>
    /\ \E G \in SUBSET Range(input) : Range(result.test) = RowsOfGroups(G)
    /\ \A G \in SUBSET Range(input) :
         Abs(Len(result.test) - RequestedCount)
           <= Abs(Cardinality(RowsOfGroups(G)) - RequestedCount)

C4_Witness ==
  /\ Returned /\ TwoWay
  /\ ValidFraction
  /\ Len(result.test) > RequestedCount
  /\ result.train # <<>>
  /\ Len(clusters) >= 2

\* C5: whenever some set of whole groups has a record fraction within
\* tolerance of the requested fraction, the returned test partition is
\* within tolerance and no warning is emitted; a warning is emitted only
\* when no such set exists.
FeasibleWithinTolerance ==
  \E G \in SUBSET Range(input) :
    Within(Cardinality(RowsOfGroups(G)), args.test_size, args.tolerance)
C5_WithinToleranceWhenFeasible ==
  (Returned /\ entry = "split" /\ ValidFraction) =>
    /\ FeasibleWithinTolerance =>
         (Within(Len(result.test), args.test_size, args.tolerance) /\ ~warned)
    /\ warned => ~FeasibleWithinTolerance

\* C6: the warning is emitted exactly when the achieved fraction is off by
\* more than the tolerance; the call then still returns the pair computed
\* from the closest achievable sum, and no error is raised for imbalance.
C6_WarningNotFatal ==
  /\ (Returned /\ TwoWay) =>
       /\ warned <=> ~Within(Len(result.test), args.test_size, args.tolerance)
       /\ err = "none"
       /\ result.test = test_df /\ result.train = train_df
       /\ Len(result.test) = best_sum
       /\ \A s \in Keys(dp) :
            Abs(best_sum - target_test_count) <= Abs(s - target_test_count)
  /\ (pc = "raised" /\ entry = "split") => N = 0

C6_Witness ==
  /\ Returned /\ TwoWay
  /\ warned
  /\ Len(result.test) * Den < args.test_size * N
  /\ result.train # <<>>

\* C7: a two-way split requested with a test fraction outside (0,1) does
\* not return a (train, test) pair.
C7_InvalidFractionRejected ==
  (entry = "split" /\ ~ValidFraction) => ~Returned

\* C8: with the clustering tool available, cluster_split never ends in a
\* failure caused by a name the module does not define.
C8_NoUndefinedName ==
  (entry = "cluster_split" /\ mmseqs /\ ValidFraction /\ pc = "raised") =>
    err # "NameError"

\* C9: a constrained split returns every force_train_ids row in train and
\* every force_test_ids row in test, the two partitions share no group, and
\* len(train) + len(test) = len(input).
C9_ForcedAssignments ==
  (Returned /\ entry = "constrained_split") =>
    /\ args.force_train_ids \subseteq Range(result.train)
    /\ args.force_test_ids \subseteq Range(result.test)
    /\ GroupsOf(result.train) \cap GroupsOf(result.test) = {}
    /\ Len(result.train) + Len(result.test) = N

C9_Witness ==
  /\ Returned /\ entry = "constrained_split"
  /\ args.force_train_ids # {}
  /\ args.force_test_ids # {}
  /\ Len(test_df) > 0
  /\ Len(result.test) > Len(test_df)
  /\ Len(result.train) > Len(train_df)

\* C10: the three-way split returns train, val and test partitions that are
\* pairwise disjoint in group identifiers and whose sizes sum to the size
\* of the input.
C10_ThreeWayDisjointComplete ==
  (Returned /\ entry = "train_test_val_cluster_split") =>
    /\ GroupsOf(result.train) \cap GroupsOf(result.val) = {}
    /\ GroupsOf(result.train) \cap GroupsOf(result.test) = {}
    /\ GroupsOf(result.val) \cap GroupsOf(result.test) = {}
    /\ Len(result.train) + Len(result.val) + Len(result.test) = N

C10_Witness ==
  /\ Returned /\ entry = "train_test_val_cluster_split"
  /\ result.train # <<>>
  /\ result.val # <<>>
  /\ result.test # <<>>
  /\ test_size = [num |-> args.val_size, den |-> Den - args.test_size]

\* C11: k-fold splitting with K folds returns K (train, test) pairs; every
\* group is in the test partition of exactly one fold and in the train
\* partition of every other fold, and in each fold train and test share no
\* group and len(train) + len(test) = len(input).
C11_KFoldExhaustive ==
  (Returned /\ entry = "cluster_kfold") =>
    /\ Len(result) = args.n_splits
    /\ \A g \in Range(input) :
         /\ Cardinality({f \in DOMAIN result : g \in GroupsOf(result[f].test)}) = 1
         /\ \A f \in DOMAIN result :
              g \in GroupsOf(result[f].train) <=> g \notin GroupsOf(result[f].test)
    /\ \A f \in DOMAIN result :
         /\ GroupsOf(result[f].train) \cap GroupsOf(result[f].test) = {}
         /\ Len(result[f].train) + Len(result[f].test) = N

C11_Witness ==
  /\ Returned /\ entry = "cluster_kfold"
  /\ args.n_splits = 3
  /\ \A f \in DOMAIN result : result[f].test # <<>>
  /\ \E f \in DOMAIN result : Len(result[f].test) >= 2

\* Size sums of all sets of whole groups of the input.
AttainableSums == {Cardinality(RowsOfGroups(G)) : G \in SUBSET Range(input)}
\* lo and its mirror image 2T - lo are sums of A, equally far from T on
\* either side, and no sum of A is closer to T.
TiedBelow(A, T, lo) ==
  /\ lo < T
  /\ 2 * T - lo \in A
  /\ \A s \in A : Abs(s - T) >= T - lo

\* C14 (as stated): when two achievable sums are equally close to T, the
\* splitter selects the smaller one.
C14_TieSmallerSum ==
  (Returned /\ TwoWay) =>
    LET A == AttainableSums
        T == RequestedCount
    IN  \A lo \in A : TiedBelow(A, T, lo) => Len(result.test) = lo

\* C14 (amended): when two achievable sums are equally close to T, the
\* splitter selects the one of the two that was recorded first in dp.
C14_TieFirstRecorded ==
  (Returned /\ TwoWay) =>
    LET A == AttainableSums
        T == RequestedCount
    IN  \A lo \in A : TiedBelow(A, T, lo) =>
          Len(result.test) =
            IF Lookup(dp, lo) < Lookup(dp, 2 * T - lo) THEN lo ELSE 2 * T - lo

C14_Witness ==
  /\ Returned /\ TwoWay
  /\ \E lo \in AttainableSums :
       /\ TiedBelow(AttainableSums, RequestedCount, lo)
       /\ Len(result.test) = 2 * RequestedCount - lo

\* Sum of the sizes of the groups with (1-based) position in S.
SizeSum(S) == SumSeq([j \in 1..Len(sizes) |-> IF j \in S THEN sizes[j] ELSE 0])
\* Size sums of all subsets of the first k groups.
SubsetSums(k) == {SizeSum(S) : S \in SUBSET (1..k)}
Last(s) == s[Len(s)]

\* C15: once a sum has a witness recorded, processing later groups never
\* replaces or alters it, and the witness of a sum was recorded at the
\* earliest group at which the sum becomes achievable.
C15_FirstFound ==
  /\ [](\A k \in DOMAIN dp :
          dp[k].idx_list # <<>> => dp[k].sum \notin SubsetSums(Last(dp[k].idx_list)))
  /\ [][pc = "dp" =>
          /\ Len(dp') >= Len(dp)
          /\ \A k \in DOMAIN dp : dp'[k] = dp[k]]_vars

C15_Witness ==
  /\ pc = "dp"
  /\ idx = Len(sizes)
  /\ \E k \in DOMAIN dp, g \in 1..Len(sizes) :
       /\ dp[k].idx_list # <<>>
       /\ Last(dp[k].idx_list) + 1 < g
       /\ dp[k].sum - sizes[g] \in SubsetSums(g - 1)

\* C16: after the first idx groups are processed, the recorded sums are
\* exactly the size sums of all subsets of those groups, each recorded once
\* and within [0, total], and each witness is a strictly increasing list of
\* indices below idx whose sizes add up to its sum.
C16_LoopInvariant ==
  dp # <<>> =>
    /\ Keys(dp) = SubsetSums(idx)
    /\ \A k, l \in DOMAIN dp : dp[k].sum = dp[l].sum => k = l
    /\ \A k \in DOMAIN dp : dp[k].sum >= 0 /\ dp[k].sum <= total_sequences
    /\ Len(dp) <= total_sequences + 1
    /\ \A k \in DOMAIN dp :
         LET w == dp[k].idx_list
         IN  /\ \A a \in DOMAIN w : w[a] >= 0 /\ w[a] < idx
             /\ \A a, b \in DOMAIN w : a < b => w[a] < w[b]
             /\ SumSeq([a \in DOMAIN w |-> sizes[w[a] + 1]]) = dp[k].sum

C16_Witness ==
  /\ pc = "dp"
  /\ idx = MaxGroups
  /\ idx = Len(sizes)
  /\ \E k \in DOMAIN dp : Len(dp[k].idx_list) = MaxGroups

ClusterExited == entry = "cluster" /\ pc \in {"done", "raised"}

\* C12: on every exit of cluster the caller's dataset has its original
\* columns with their original values, plus at most the column
\* representative_sequence; the helper column sanitized_id is not left.
C12_OnlyLabelColumnAdded ==
  ClusterExited =>
    /\ DOMAIN cdf \ {"representative_sequence"} = DOMAIN args.df
    /\ \A c \in DOMAIN args.df : cdf[c] = args.df[c]

\* C13: after cluster returns, every record has a representative_sequence
\* value, and a record whose identifier does not occur in the tool's output
\* is labelled with its own original identifier.
OccursInOutput(x) ==
  x \in DOMAIN cluster_map \/ \E m \in DOMAIN cluster_map : cluster_map[m] = x
C13_TotalOwnIdFallback ==
  (entry = "cluster" /\ Returned) =>
    /\ "representative_sequence" \in DOMAIN cdf
    /\ DOMAIN cdf["representative_sequence"] = DOMAIN cdf["id"]
    /\ \A i \in DOMAIN cdf["id"] :
         ~OccursInOutput(Sanitize(cdf["id"][i])) =>
           cdf["representative_sequence"][i] = cdf["id"][i]

\* C17: the temporary directory of cluster is gone at every exit, and none
\* was created when the tool check or the column check failed.
C17_TmpDirRemoved ==
  ClusterExited =>
    /\ tmp_dir # "exists"
    /\ err \in {"EnvironmentError", "ValueError"} <=> tmp_dir = "none"

C17_Witness ==
  /\ ClusterExited
  /\ err \in {"OSError", "CalledProcessError", "FileNotFoundError"}
  /\ tmp_dir = "removed"

====
